---------------------------- MODULE Spec2Model ----------------------------
(***************************************************************************)
(* Hybrid Logical Clock prototype (src/src/main.rs).                       *)
(*                                                                         *)
(* Specifications over the same variables:                                 *)
(*   Spec       the program: two node threads, each owning one clock,      *)
(*              sending over one mpsc channel whose receiver is shared     *)
(*              behind a mutex.                                            *)
(*   SpecCausal Spec with the observer merged kept up to date.             *)
(*   SpecLive   Spec under fair scheduling of the two threads.             *)
(*   SpecFault  Spec with a wall-clock read that may fail: the expect of   *)
(*              current_millis panics and ends the calling thread.         *)
(*   SpecClock  one clock instance driven through arbitrary increment /    *)
(*              update calls, every call drawing its wall-clock reading    *)
(*              and its remote timestamp from bounded sets; the call       *)
(*              record (op, now, remote, old, got, prevOp, prevNow) keeps  *)
(*              the inputs, the entry state and the value read.            *)
(*                                                                         *)
(* current_millis() reads SystemTime, which is not monotonic; each call    *)
(* returns any value of Times.  physical_time and logical_counter are u64; *)
(* the counters of the model stay below MaxCounter, far from 2^64.         *)
(***************************************************************************)
EXTENDS Naturals, Sequences, FiniteSets, TLC

\* ------------------------------------------------------------------ bounds

\* wall-clock readings are 1..MaxTime
MaxTime == 3
\* calls whose resulting logical_counter would exceed MaxCounter are not taken
MaxCounter == 2

Times == 1..MaxTime
Counters == 0..MaxCounter

\* ------------------------------------------------------------------ data

\* simulate_network creates Node::new(1, ..) and Node::new(2, ..)
Nodes == {1, 2}

\* node1.send_message(2), node2.send_message(1)
Target == (1 :> 2) @@ (2 :> 1)

\* struct HybridLogicalClock { physical_time: u64, logical_counter: u64 }
HybridLogicalClock == [physical_time : Times, logical_counter : Counters]

\* struct Message { sender_id, target_id, timestamp }
Message == [sender_id : Nodes, target_id : Nodes, timestamp : HybridLogicalClock]

\* "no timestamp": the remote of a call that takes none, nothing merged yet
NoTimestamp == [physical_time |-> 0, logical_counter |-> 0]

VARIABLES
    clock,      \* Node.clock, per node
    chan,       \* the mpsc channel: messages sent and not yet received
    pc,         \* per node thread: "send" | "lock" | "recv", or ended by a
                \* panic: "panicked" | "panicked_in_recv" (guard held)
    holder,     \* the node holding the receiver's mutex, 0 when free
    merged,     \* per node: the greatest timestamp handle_message has merged
    op,         \* call record: the last call on the clock under test
    now,        \* call record: the wall-clock reading of the last call
    remote,     \* call record: the remote timestamp of the last update
    old,        \* call record: the clock at entry of the last call
    got,        \* call record: what the last get_time returned
    prevOp,     \* call record: the call before the last
    prevNow     \* call record: the wall-clock reading of the call before

netVars == <<chan, pc, holder, merged>>
callVars == <<op, now, remote, old, got, prevOp, prevNow>>
vars == <<clock, chan, pc, holder, merged, op, now, remote, old, got, prevOp, prevNow>>

\* the clock instance SpecClock drives
Self == CHOOSE n \in Nodes : \A m \in Nodes : n <= m

\* ------------------------------------------------------------------ pure functions

\* std::cmp::max
max(a, b) == IF a >= b THEN a ELSE b

\* HybridLogicalClock::new
new(t) == [physical_time |-> t, logical_counter |-> 0]

\* increment resetting the counter on line 29 instead of adding 1
increment_reset(self, t) ==
    IF t = self.physical_time
    THEN [self EXCEPT !.logical_counter = 0]
    ELSE [physical_time |-> t, logical_counter |-> 0]

\* increment with line 32 missing: the counter survives a new physical_time
increment_keep_counter(self, t) ==
    IF t = self.physical_time
    THEN [self EXCEPT !.logical_counter = @ + 1]
    ELSE [physical_time |-> t, logical_counter |-> self.logical_counter]

\* HybridLogicalClock::increment
increment(self, t) ==
    IF t = self.physical_time
    THEN [self EXCEPT !.logical_counter = @ + 1]
    ELSE [physical_time |-> t, logical_counter |-> 0]

\* update with the "+ 1" of line 42 dropped
update_no_bump(self, r, t) ==
    LET pt == max(t, r.physical_time) IN
    IF pt = r.physical_time
    THEN [physical_time |-> pt,
          logical_counter |-> max(self.logical_counter, r.logical_counter)]
    ELSE [physical_time |-> pt, logical_counter |-> 0]

\* update taking the remote counter alone on line 42
update_remote_counter(self, r, t) ==
    LET pt == max(t, r.physical_time) IN
    IF pt = r.physical_time
    THEN [physical_time |-> pt, logical_counter |-> r.logical_counter + 1]
    ELSE [physical_time |-> pt, logical_counter |-> 0]

\* update keeping the counter instead of resetting it on line 44
update_keep_counter(self, r, t) ==
    LET pt == max(t, r.physical_time) IN
    IF pt = r.physical_time
    THEN [physical_time |-> pt,
          logical_counter |-> max(self.logical_counter, r.logical_counter) + 1]
    ELSE [physical_time |-> pt, logical_counter |-> self.logical_counter]

\* HybridLogicalClock::update
update(self, r, t) ==
    LET pt == max(t, r.physical_time) IN
    IF pt = r.physical_time
    THEN [physical_time |-> pt,
          logical_counter |-> max(self.logical_counter, r.logical_counter) + 1]
    ELSE [physical_time |-> pt, logical_counter |-> 0]

\* get_time returning the two fields in the wrong order
get_time_swapped(self) == <<self.logical_counter, self.physical_time>>

\* a failed wall-clock read taken for time 0 instead of panicking
increment_failed_zero(self) == increment(self, 0)

\* increment when current_millis panics: line 27 precedes every write
increment_failed(self) == self

\* a failed wall-clock read taken for time 0 instead of panicking
update_failed_zero(self, r) == update(self, r, 0)

\* update when current_millis panics: line 38 precedes every write
update_failed(self, r) == self

\* HybridLogicalClock::get_time
get_time(self) == <<self.physical_time, self.logical_counter>>

\* lexicographic order on (physical_time, logical_counter)
Less(a, b) ==
    \/ a.physical_time < b.physical_time
    \/ a.physical_time = b.physical_time /\ a.logical_counter < b.logical_counter

LessEq(a, b) == a = b \/ Less(a, b)

\* ------------------------------------------------------------------ initial state

\* both nodes are built by Node::new, each clock by HybridLogicalClock::new
Init ==
    /\ clock \in [Nodes -> {new(t) : t \in Times}]
    /\ chan = <<>>
    /\ pc = [n \in Nodes |-> "send"]
    /\ holder = 0
    /\ merged = [n \in Nodes |-> NoTimestamp]
    /\ op = "new"
    /\ now = clock[Self].physical_time
    /\ remote = NoTimestamp
    /\ old = clock[Self]
    /\ got = <<>>
    /\ prevOp = "none"
    /\ prevNow = now

\* ------------------------------------------------------------------ the program

\* send_message attaching the timestamp read before the increment
send_message_stale(n) ==
    /\ pc[n] = "send"
    /\ \E t \in Times :
        LET c == increment(clock[n], t) IN
        /\ c.logical_counter <= MaxCounter
        /\ clock' = [clock EXCEPT ![n] = c]
        /\ chan' = Append(chan, [sender_id |-> n, target_id |-> Target[n],
                                 timestamp |-> clock[n]])
    /\ pc' = [pc EXCEPT ![n] = "lock"]
    /\ UNCHANGED <<holder, merged>>
    /\ UNCHANGED callVars

\* send_message over a channel that hands out the newest message first
send_message_front(n) ==
    /\ pc[n] = "send"
    /\ \E t \in Times :
        LET c == increment(clock[n], t) IN
        /\ c.logical_counter <= MaxCounter
        /\ clock' = [clock EXCEPT ![n] = c]
        /\ chan' = <<[sender_id |-> n, target_id |-> Target[n],
                      timestamp |-> c]>> \o chan
    /\ pc' = [pc EXCEPT ![n] = "lock"]
    /\ UNCHANGED <<holder, merged>>
    /\ UNCHANGED callVars

\* Node::send_message: increment the clock, send a snapshot of it
send_message(n) ==
    /\ pc[n] = "send"
    /\ \E t \in Times :
        LET c == increment(clock[n], t) IN
        /\ c.logical_counter <= MaxCounter
        /\ clock' = [clock EXCEPT ![n] = c]
        /\ chan' = Append(chan, [sender_id |-> n, target_id |-> Target[n],
                                 timestamp |-> c])
    /\ pc' = [pc EXCEPT ![n] = "lock"]
    /\ UNCHANGED <<holder, merged>>
    /\ UNCHANGED callVars

\* a thread that panicked while it held the guard poisoned the mutex
Poisoned == \E n \in Nodes : pc[n] = "panicked_in_recv"

\* rx.lock().unwrap(): take the receiver's mutex
lock(n) ==
    /\ pc[n] = "lock"
    /\ holder = 0
    /\ ~Poisoned
    /\ holder' = n
    /\ pc' = [pc EXCEPT ![n] = "recv"]
    /\ UNCHANGED <<clock, chan, merged>>
    /\ UNCHANGED callVars

\* accept merging into the clock of the message's sender
accept_into_sender(n) ==
    /\ pc[n] = "recv"
    /\ holder = n
    /\ chan # <<>>
    /\ Head(chan).target_id = n
    /\ \E t \in Times :
        LET c == update(clock[Head(chan).sender_id], Head(chan).timestamp, t) IN
        /\ c.logical_counter <= MaxCounter
        /\ clock' = [clock EXCEPT ![Head(chan).sender_id] = c]
    /\ chan' = Tail(chan)
    /\ holder' = 0
    /\ pc' = [pc EXCEPT ![n] = "send"]
    /\ UNCHANGED callVars

\* recv() returns a message addressed to this node: Node::handle_message,
\* then the guard is dropped at the end of the if-let
accept(n) ==
    /\ pc[n] = "recv"
    /\ holder = n
    /\ chan # <<>>
    /\ Head(chan).target_id = n
    /\ \E t \in Times :
        LET c == update(clock[n], Head(chan).timestamp, t) IN
        /\ c.logical_counter <= MaxCounter
        /\ clock' = [clock EXCEPT ![n] = c]
    /\ chan' = Tail(chan)
    /\ holder' = 0
    /\ pc' = [pc EXCEPT ![n] = "send"]
    /\ UNCHANGED callVars

handle_message(n) ==
    /\ accept(n)
    /\ UNCHANGED merged

\* discard_message with the guard never dropped
discard_message_keep_guard(n) ==
    /\ pc[n] = "recv"
    /\ holder = n
    /\ chan # <<>>
    /\ Head(chan).target_id # n
    /\ chan' = Tail(chan)
    /\ pc' = [pc EXCEPT ![n] = "send"]
    /\ UNCHANGED <<clock, merged, holder>>
    /\ UNCHANGED callVars

\* recv() returns a message addressed to another node: it is dropped
discard_message(n) ==
    /\ pc[n] = "recv"
    /\ holder = n
    /\ chan # <<>>
    /\ Head(chan).target_id # n
    /\ chan' = Tail(chan)
    /\ holder' = 0
    /\ pc' = [pc EXCEPT ![n] = "send"]
    /\ UNCHANGED <<clock, merged>>
    /\ UNCHANGED callVars

Next ==
    \E n \in Nodes :
        \/ send_message(n)
        \/ lock(n)
        \/ handle_message(n)
        \/ discard_message(n)

Spec == Init /\ [][Next]_vars

\* ------------------------------------------------------------------ the program, observed

\* handle_message, with the observer noting the greatest timestamp merged
handle_message_noted(n) ==
    /\ accept(n)
    /\ merged' = [merged EXCEPT ![n] =
                    IF @ = NoTimestamp \/ Less(@, Head(chan).timestamp)
                    THEN Head(chan).timestamp ELSE @]

NextCausal ==
    \E n \in Nodes :
        \/ send_message(n)
        \/ lock(n)
        \/ handle_message_noted(n)
        \/ discard_message(n)

\* Spec with merged kept up to date
SpecCausal == Init /\ [][NextCausal]_vars

\* ------------------------------------------------------------------ the program, scheduled fairly

\* send_message observing a now below MaxTime: a receiver can then always
\* read a wall clock past the timestamp, so that the bound MaxCounter never
\* stops a handle_message
send_message_live(n) ==
    /\ send_message(n)
    /\ clock'[n].physical_time < MaxTime

NextLive ==
    \E n \in Nodes :
        \/ send_message_live(n)
        \/ lock(n)
        \/ handle_message(n)
        \/ discard_message(n)

\* every thread keeps running (the sleep of lines 127-128 ends, send and
\* recv return), and a thread waiting for the mutex gets it: the holder
\* releases it and then sleeps for at least a second before asking again
Fairness ==
    \A n \in Nodes :
        /\ WF_vars(send_message_live(n))
        /\ SF_vars(lock(n))
        /\ WF_vars(handle_message(n))
        /\ WF_vars(discard_message(n))

SpecLive == Init /\ [][NextLive]_vars /\ Fairness

\* ------------------------------------------------------------------ the program, time source failing

\* send_message whose increment cannot read the wall clock: the expect of
\* current_millis panics, the thread ends before anything is sent
send_time_failure(n) ==
    /\ pc[n] = "send"
    /\ clock' = [clock EXCEPT ![n] = increment_failed(clock[n])]
    /\ pc' = [pc EXCEPT ![n] = "panicked"]
    /\ UNCHANGED <<chan, holder, merged>>
    /\ UNCHANGED callVars

\* handle_message whose update cannot read the wall clock: the message has
\* been received, the thread ends and drops the guard while panicking
handle_time_failure(n) ==
    /\ pc[n] = "recv"
    /\ holder = n
    /\ chan # <<>>
    /\ Head(chan).target_id = n
    /\ clock' = [clock EXCEPT ![n] = update_failed(clock[n], Head(chan).timestamp)]
    /\ chan' = Tail(chan)
    /\ holder' = 0
    /\ pc' = [pc EXCEPT ![n] = "panicked_in_recv"]
    /\ UNCHANGED merged
    /\ UNCHANGED callVars

\* rx.lock().unwrap() on the poisoned mutex: the unwrap panics
lock_poisoned(n) ==
    /\ pc[n] = "lock"
    /\ holder = 0
    /\ Poisoned
    /\ pc' = [pc EXCEPT ![n] = "panicked"]
    /\ UNCHANGED <<clock, chan, holder, merged>>
    /\ UNCHANGED callVars

NextFault ==
    \E n \in Nodes :
        \/ send_message(n)
        \/ lock(n)
        \/ handle_message(n)
        \/ discard_message(n)
        \/ send_time_failure(n)
        \/ handle_time_failure(n)
        \/ lock_poisoned(n)

SpecFault == Init /\ [][NextFault]_vars

\* ------------------------------------------------------------------ one clock, any calls

\* the call record after a call on the clock under test
Called(o, t, r) ==
    /\ op' = o
    /\ now' = t
    /\ remote' = r
    /\ old' = clock[Self]
    /\ got' = got
    /\ prevOp' = op
    /\ prevNow' = now

\* a call of increment observing any now
call_increment ==
    \E t \in Times :
        LET c == increment(clock[Self], t) IN
        /\ c.logical_counter <= MaxCounter
        /\ clock' = [clock EXCEPT ![Self] = c]
        /\ Called("increment", t, NoTimestamp)
        /\ UNCHANGED netVars

\* a call of update observing any now, with any remote timestamp
call_update ==
    \E t \in Times, r \in HybridLogicalClock :
        LET c == update(clock[Self], r, t) IN
        /\ c.logical_counter <= MaxCounter
        /\ clock' = [clock EXCEPT ![Self] = c]
        /\ Called("update", t, r)
        /\ UNCHANGED netVars

\* a call of get_time (&self: the clock is not written, no wall-clock read)
call_get_time ==
    /\ op' = "get_time"
    /\ got' = get_time(clock[Self])
    /\ old' = clock[Self]
    /\ prevOp' = op
    /\ prevNow' = now
    /\ UNCHANGED <<clock, now, remote>>
    /\ UNCHANGED netVars

NextClock == call_increment \/ call_update \/ call_get_time

SpecClock == Init /\ [][NextClock]_vars

\* ------------------------------------------------------------------ claims

\* the last call on the clock under test was increment or update
Mutated == op \in {"increment", "update"}

\* C1: after every increment or update call the clock's timestamp is not
\* below (lexicographically) the timestamp it held before the call.
C1_Monotonic == Mutated => LessEq(old, clock[Self])

\* C2: after update(remote) the clock's timestamp is strictly greater than
\* the remote timestamp, for every clock state, remote timestamp and now.
C2_MergeExceedsRemote == op = "update" => Less(remote, clock[Self])

\* an update whose remote physical_time is kept and whose remote counter is
\* above the clock's own: only the "+ 1" puts the result above the remote
C2_Witness ==
    /\ op = "update"
    /\ remote.physical_time >= now
    /\ remote.physical_time = old.physical_time
    /\ remote.logical_counter > old.logical_counter

\* C3: a node that has merged a message carrying timestamp T attaches to
\* every message it sends afterwards a timestamp strictly greater than T.
\* (While pc[n] is not "send" the clock of n is the timestamp attached to the
\* message n sent last, and merged[n] was merged before that send.)
C3_SendAfterMerge ==
    \A n \in Nodes :
        pc[n] # "send" /\ merged[n] # NoTimestamp => Less(merged[n], clock[n])

\* C4: of two consecutive increment/update calls observing the same now,
\* the second leaves a timestamp strictly greater than the first did.
C4_StrictWithinMillisecond ==
    Mutated /\ prevOp \in {"increment", "update"} /\ now = prevNow
        => Less(old, clock[Self])

\* C5: after update the physical_time is the maximum of now, the remote
\* physical_time and the clock's own physical_time before the call.
C5_MergePhysicalMax ==
    op = "update" =>
        clock[Self].physical_time =
            max(now, max(remote.physical_time, old.physical_time))

\* C6: update with the clock's physical_time strictly above both now and the
\* remote physical_time keeps physical_time and adds 1 to the clock's counter.
C6_MergeLocalAhead ==
    op = "update" /\ old.physical_time > now
                  /\ old.physical_time > remote.physical_time
        => clock[Self] = [physical_time |-> old.physical_time,
                          logical_counter |-> old.logical_counter + 1]

\* C7: update with the remote physical_time the maximum and strictly above
\* the clock's yields (remote.physical_time, remote.logical_counter + 1).
C7_MergeRemoteAhead ==
    op = "update" /\ remote.physical_time >= now
                  /\ remote.physical_time > old.physical_time
        => clock[Self] = [physical_time |-> remote.physical_time,
                          logical_counter |-> remote.logical_counter + 1]

\* C8: update with remote and clock physical_time equal and not below now
\* keeps that physical_time and sets the counter to max(local, remote) + 1.
C8_MergeEqualPhysical ==
    op = "update" /\ remote.physical_time = old.physical_time
                  /\ old.physical_time >= now
        => clock[Self] =
            [physical_time |-> old.physical_time,
             logical_counter |->
                max(old.logical_counter, remote.logical_counter) + 1]

\* equal physical times above now, the clock's own counter the greater one
C8_Witness ==
    /\ op = "update"
    /\ remote.physical_time = old.physical_time
    /\ old.physical_time > now
    /\ old.logical_counter > remote.logical_counter
    /\ clock[Self].logical_counter = old.logical_counter + 1

\* C9: update with now strictly above both the remote and the clock's
\* physical_time sets the clock to (now, 0).
C9_MergeNowAhead ==
    op = "update" /\ now > remote.physical_time /\ now > old.physical_time
        => clock[Self] = [physical_time |-> now, logical_counter |-> 0]

\* now alone the maximum, with both counters above 0 before the call
C9_Witness ==
    /\ op = "update"
    /\ now > remote.physical_time
    /\ now > old.physical_time
    /\ old.logical_counter > 0
    /\ remote.logical_counter > 0
    /\ clock[Self] = [physical_time |-> now, logical_counter |-> 0]

\* C10: increment observing now below the clock's physical_time keeps
\* physical_time and adds 1 to the counter.
C10_AdvanceBackwardTime ==
    op = "increment" /\ now < old.physical_time
        => clock[Self] = [physical_time |-> old.physical_time,
                          logical_counter |-> old.logical_counter + 1]

\* C11: increment observing now equal to the clock's physical_time keeps
\* physical_time and adds exactly 1 to the counter; and a further increment
\* observing the same now as the increment before it adds exactly 1 again
\* (now frozen at P: (P, c+1), (P, c+2), ...).
C11_AdvanceTie ==
    /\ op = "increment" /\ now = old.physical_time
        => clock[Self] = [physical_time |-> old.physical_time,
                          logical_counter |-> old.logical_counter + 1]
    /\ op = "increment" /\ prevOp = "increment" /\ now = prevNow
        => clock[Self] = [physical_time |-> now,
                          logical_counter |-> old.logical_counter + 1]

\* two increments in a row with now frozen, the counter at 2 after them
C11_Witness ==
    /\ op = "increment"
    /\ prevOp = "increment"
    /\ now = prevNow
    /\ now = old.physical_time
    /\ clock[Self].logical_counter = 2

\* C12: increment observing now above the clock's physical_time sets the
\* clock to exactly (now, 0).
C12_AdvanceForward ==
    op = "increment" /\ now > old.physical_time
        => clock[Self] = [physical_time |-> now, logical_counter |-> 0]

\* time moved forward with a counter above 0 to reset
C12_Witness ==
    /\ op = "increment"
    /\ now > old.physical_time
    /\ old.logical_counter > 0
    /\ clock[Self] = [physical_time |-> now, logical_counter |-> 0]

\* C13: get_time leaves the clock as it was and returns exactly its
\* (physical_time, logical_counter): after an increment or update that is the
\* value the call produced, after another get_time the value read before.
C13_ReadRoundTrip ==
    op = "get_time" =>
        /\ clock[Self] = old
        /\ got = <<old.physical_time, old.logical_counter>>

\* a read right after an update that left a counter above 0
C13_Witness ==
    /\ op = "get_time"
    /\ prevOp = "update"
    /\ clock[Self].logical_counter > 0
    /\ got = <<clock[Self].physical_time, clock[Self].logical_counter>>
    /\ got[1] # got[2]

\* the thread of the node has ended by a panic
Panicked == {"panicked", "panicked_in_recv"}

\* every physical_time held by a clock or carried by a message was read
\* from the wall clock
ValidTimes ==
    /\ \A n \in Nodes : clock[n].physical_time \in Times
    /\ \A i \in 1..Len(chan) : chan[i].timestamp.physical_time \in Times

\* C14: a step in which a node's wall-clock read fails ends the node's thread,
\* leaves its clock as it was and sends nothing; a node so stopped never
\* writes its clock or sends again; no clock and no message ever holds a
\* physical_time that is not a wall-clock reading.
C14_TimeFailureFatal ==
    [][\A n \in Nodes :
        /\ pc[n] \notin Panicked /\ pc'[n] \in Panicked
            => /\ clock'[n] = clock[n]
               /\ chan' = chan \/ (chan # <<>> /\ chan' = Tail(chan))
        /\ pc[n] \in Panicked
            => /\ pc'[n] = pc[n]
               /\ clock'[n] = clock[n]
               /\ Len(chan') <= Len(chan) \/ chan'[Len(chan')].sender_id # n
        /\ ValidTimes /\ ValidTimes']_vars

\* one node stopped by a failed read inside handle_message, the other
\* stopped too, a message still in the channel
C14_Witness ==
    /\ pc[1] = "panicked_in_recv"
    /\ pc[2] = "panicked"
    /\ chan # <<>>

\* node n's thread runs send_message in this step
Sends(n) == pc[n] = "send" /\ pc'[n] = "lock"

\* node n's thread takes the head of the channel in this step
Receives(n) == pc[n] = "recv" /\ pc'[n] = "send"

\* the messages of sender s in q, in q's order
BySender(q, s) == SelectSeq(q, LAMBDA m : m.sender_id = s)

\* C15: a send is one increment of the sender's clock and one message
\* carrying the clock's value right after it; a message enters the channel
\* only by a send and a clock changes only in its node's send or accepted
\* receive; messages in the channel keep their timestamp whatever happens to
\* the sender's clock; an accepted message is merged by one update with the
\* message's timestamp.
C15_RelayProtocol ==
    [][/\ \A n \in Nodes :
            /\ Sends(n) =>
                \E t \in Times :
                    /\ clock'[n] = increment(clock[n], t)
                    /\ chan' = Append(chan, [sender_id |-> n,
                                             target_id |-> Target[n],
                                             timestamp |-> clock'[n]])
            /\ Receives(n) /\ Head(chan).target_id = n =>
                \E t \in Times :
                    clock'[n] = update(clock[n], Head(chan).timestamp, t)
            /\ clock'[n] # clock[n] =>
                Sends(n) \/ (Receives(n) /\ Head(chan).target_id = n)
       /\ Len(chan') > Len(chan) => \E n \in Nodes : Sends(n)
       /\ \/ chan' = chan
          \/ chan # <<>> /\ chan' = Tail(chan)
          \/ Len(chan') = Len(chan) + 1 /\ SubSeq(chan', 1, Len(chan)) = chan
      ]_vars

\* a message in the channel whose sender's clock has moved on since
C15_Witness ==
    \E i \in 1..Len(chan) :
        /\ chan[i].timestamp # clock[chan[i].sender_id]
        /\ Less(chan[i].timestamp, clock[chan[i].sender_id])

\* C16: every message sent with target_id X is delivered to node X and
\* merged into X's clock.  A message leaves the channel in one receive and is
\* never handed out again, so: the node that receives a message is its target.
C16_DeliveredToTarget ==
    [][\A n \in Nodes : Receives(n) => Head(chan).target_id = n]_vars

\* C17: there is one clock per node, and a step that changes the clock of
\* node n is a step of n's own thread that leaves the other node's thread and
\* clock as they were.
C17_ExclusiveOwnership ==
    [][/\ DOMAIN clock = Nodes
       /\ \A n \in Nodes :
            clock'[n] # clock[n] =>
                /\ pc'[n] # pc[n]
                /\ \A m \in Nodes \ {n} :
                        pc'[m] = pc[m] /\ clock'[m] = clock[m]]_vars

\* both threads have sent, each having written its own clock past the
\* value new() gave it
C17_Witness ==
    /\ \A n \in Nodes : pc[n] # "send" /\ clock[n].logical_counter > 0
    /\ Len(chan) = Cardinality(Nodes)

\* C18: every message placed on the channel is received by every node, and a
\* node drops, its clock untouched, the messages not addressed to it.  No
\* message is received twice, so a receive by one node has to leave the
\* message in the channel for the other node to receive.
C18_BroadcastWithFilter ==
    [][\A n \in Nodes :
        Receives(n) =>
            /\ chan' = chan
            /\ Head(chan).target_id # n => clock'[n] = clock[n]]_vars

\* C19: the messages of one sender leave the channel in the order they were
\* sent: per sender, a step appends a message behind that sender's earlier
\* ones, or takes that sender's oldest message, which is then the head of the
\* channel, or leaves that sender's messages alone.
C19_OrderedPerSender ==
    [][\A s \in Nodes :
        LET q == BySender(chan, s)
            r == BySender(chan', s)
        IN  \/ r = q
            \/ q # <<>> /\ r = Tail(q) /\ Head(chan) = Head(q)
                        /\ chan' = Tail(chan)
            \/ Len(r) = Len(q) + 1 /\ SubSeq(r, 1, Len(q)) = q
                                   /\ chan'[Len(chan')] = r[Len(r)]]_vars

\* two messages of one sender with different timestamps in the channel
C19_Witness ==
    /\ Len(chan) = 2
    /\ chan[1].sender_id = chan[2].sender_id
    /\ chan[1].timestamp # chan[2].timestamp

\* C20: whenever a node holds the receiver's mutex the channel holds a
\* message for its recv to return; the channel never holds more messages
\* than there are nodes; and every node sends and receives again and again.
C20_NoReceiveDeadlock ==
    /\ [](holder # 0 => chan # <<>>)
    /\ [](Len(chan) <= Cardinality(Nodes))
    /\ \A n \in Nodes : []<>(pc[n] = "send") /\ []<>(pc[n] = "recv")

\* a node holds the mutex with the channel full, the other node waiting
C20_Witness ==
    /\ holder # 0
    /\ Len(chan) = Cardinality(Nodes)
    /\ \E n \in Nodes : pc[n] = "lock"

=============================================================================
